---- MODULE Spec2Model ----
(***************************************************************************)
(* svgtail (src/src/main.rs): a live-reload SVG previewer.                 *)
(*                                                                         *)
(* The module models                                                       *)
(*   - the main loop of main() (lines 160-294) as a state machine whose    *)
(*     steps are the numbered sections of the loop body, together with     *)
(*     the watcher thread and the file system that feed it (Spec; and      *)
(*     SpecView, SpecFilter: the same actions under other inputs);         *)
(*     SpecSched adds the focus, windows of no size, the closing of the    *)
(*     window and the history of the frames; SpecLive is the loop under    *)
(*     weak fairness of its steps;                                         *)
(*   - wait_for_creation (lines 66-103) (SpecWait);                        *)
(*   - the pixel conversion at the end of render (lines 42-56) (SpecPix);  *)
(*   - the fit and the offsets of render in f32 (lines 33-36, 203-206)     *)
(*     (SpecCentre).                                                       *)
(*                                                                         *)
(* Numbers.  Window and document sizes are integers.  fit_scale, an f32    *)
(* quotient, is kept as the pair <<numerator, denominator>> it was         *)
(* computed from and compared by cross-multiplication (IEEE division is    *)
(* correctly rounded, so equal quotients are equal f32 values).  zoom is   *)
(* the sequence of f32 operations applied to 1.0 ("mul" for *= 1.1,        *)
(* "div" for /= 1.1): no cancellation of the two is assumed.  pan is in    *)
(* pixels; every value it takes is a small multiple of 10.0, exact in f32. *)
(* Where the rounding of the quotient matters (SpecCentre) an f32 is its   *)
(* 24-bit significand and its exponent, and the operations round to        *)
(* nearest, ties to even.                                                  *)
(***************************************************************************)
EXTENDS Integers, Sequences, FiniteSets, TLC

VARIABLES
    \* ---- the file system and the watcher thread
    file,        \* content at svg_path: "missing", "bad" (unparsable) or a document
    watchLive,   \* the steady-state watch still reports events
    chan,        \* the mpsc channel of main(): messages sent and not yet received
    \* ---- locals of main()
    pc,          \* position of the main thread in the loop body
    tree,        \* Option<usvg::Tree>: None or a document
    width, height,
    pan, zoom, auto_fit, fit_scale,
    dirty, was_active, reload,
    \* ---- history of the current iteration (observations, not program state)
    loads,       \* number of load_svg calls made in this iteration
    drained,     \* what the drain of this iteration received (kept until the resize step)
    reloaded,    \* the load_svg call of this iteration returned Some
    keys,        \* the kinds of key ("pan", "zoom", "reset") the input step of this iteration found down
    owed,        \* a reload-worthy message was received and no load_svg call followed yet
    missed,      \* a write to the tracked file produced no message
    \* ---- wait_for_creation
    wpc,          \* position in wait_for_creation
    wchan,        \* its own channel
    parentExists, \* the parent directory of svg_path exists
    wwatch,       \* its watch on the parent directory is registered
    wgot,         \* kinds of message its loop has received so far (history)
    \* ---- pixel conversion
    px, out,
    \* ---- the window and the frame buffer of main()
    closed,      \* the window has been closed: is_open() answers false from now on
    buffer,      \* Vec<u32>: its length and what fills it
    \* ---- history of the frames (observations, not program state)
    did,         \* how the last finished iteration ended: "render", "idle"; "none" before;
                 \* "off" throughout where the history of the frames is not kept
    fresh,       \* nothing render reads has changed since the last render
    seen,        \* what this iteration observed: "focus" (regained), "blur" (focus lost),
                 \* "msg" (a message received), "wake" (dirty set by the idle wait),
                 \* "resize" (the resize block taken), "newsize" (get_size() changed)
    calm,        \* the last finished iteration saw no key, no focus change and no message
    lastSize,    \* the size get_size() reported in the latest resize step
    \* ---- the fit and the centring in f32
    sizes,       \* <<w, h, doc_w, doc_h>>: a window size and a document size
    centred      \* fit_scale and the two products and offsets render computes from it

envVars  == <<file, watchLive, chan>>
viewVars == <<pan, zoom, auto_fit, fit_scale>>
loopVars == <<pc, tree, width, height, pan, zoom, auto_fit, fit_scale, dirty, was_active, reload>>
histVars == <<loads, drained, reloaded, keys, owed, missed>>
waitVars == <<wpc, wchan, parentExists, wwatch, wgot>>
pixVars  == <<px, out>>
centreVars == <<sizes, centred>>
schedVars == <<closed, buffer, did, calm, fresh, seen, lastSize>>
vars == <<file, watchLive, chan, pc, tree, width, height, pan, zoom, auto_fit, fit_scale,
          dirty, was_active, reload, loads, drained, reloaded, keys, owed, missed,
          wpc, wchan, parentExists, wwatch, wgot, px, out,
          closed, buffer, did, calm, fresh, seen, lastSize, sizes, centred>>

----
\* Bounds of the model.

\* Messages the channel holds at most.
MaxQueue == 2
\* |pan.0| and |pan.1| stay within MaxPan steps of pan_speed.
MaxPan == 1
\* zoom is at most MaxZoom operations away from 1.0.
MaxZoom == 1
\* Messages the channel holds at most in SpecSched.
MaxPending == 1

----
\* Documents, the file, load_svg.

None == "None"

\* Two documents, with the size tree.size() reports for each.
Docs == {"docA", "docB"}

DocW(d) == IF d = "docA" THEN 400 ELSE 200

DocH(d) == IF d = "docA" THEN 300 ELSE 400

\* What svg_path can hold.
Contents == Docs \cup {"bad"}

FileStates == Contents \cup {"missing"}

\* load_svg: fs::read fails on a missing file, Tree::from_data on unparsable
\* content; .ok() turns both into None.
LoadSvg(content) == IF content \in Docs THEN content ELSE None

----
\* Events and the reload filter.

SvgPath == "svg_path"

OtherPath == "other_path"

Kinds == {"AccessOpenAny", "AccessCloseWrite", "Create", "Modify", "ModifyName", "Remove"}

Ev(p, k) == [paths |-> p, kind |-> k]

\* DebounceEventResult: Ok(events) or Err(errors).
OkMsg(evs) == [ok |-> TRUE, events |-> evs]

ErrMsg == [ok |-> FALSE, events |-> <<>>]

\* A variant: should_reload without the Access(Open(Any)) arm.
ShouldReloadOpenToo(kind) == TRUE

\* should_reload: false for Access(Open(Any)) only.
ShouldReload(kind) == IF kind = "AccessOpenAny" THEN FALSE ELSE TRUE

\* e.paths.iter().any(|p| p == &svg_path) && should_reload(&e.kind)
EventTriggers(e) == SvgPath \in e.paths /\ ShouldReload(e.kind)

\* One pass of the body of `while let Ok(res) = rx.try_recv()` over message m.
DrainOne(flag, m) ==
    IF m.ok
    THEN flag \/ (\E i \in 1..Len(m.events) : EventTriggers(m.events[i]))
    ELSE TRUE

RECURSIVE DrainFlag(_, _)
\* The value of `reload` after the drain loop has received every message of q.
DrainFlag(flag, q) ==
    IF q = <<>> THEN flag ELSE DrainFlag(DrainOne(flag, Head(q)), Tail(q))

\* The events of the messages of q, as a set.
EventsOf(q) == UNION {{q[i].events[j] : j \in 1..Len(q[i].events)} : i \in 1..Len(q)}

\* What is recorded of the messages q a drain received: how many of them are
\* watch errors or hold an event that sets the flag, and the <<tracked, kind>>
\* of the events that are not on the tracked path or are opens of it.
DrainRecord(q) ==
    [ worthy |-> Cardinality({i \in 1..Len(q) : DrainOne(FALSE, q[i])}),
      quiet  |-> {<<SvgPath \in e.paths, e.kind>> :
                    e \in {x \in EventsOf(q) : SvgPath \notin x.paths \/ x.kind = "AccessOpenAny"}} ]

NoDrain == [worthy |-> 0, quiet |-> {}]

\* A variant: dirty set by whatever message the receive returned.
IdleMarksAny(m) == TRUE

\* The match on the message recv_timeout returned: does it set dirty?
IdleMarks(m) ==
    IF m.ok
    THEN \E i \in 1..Len(m.events) : EventTriggers(m.events[i])
    ELSE TRUE

----
\* Viewport arithmetic.

\* The smaller of the quotients a[1]/a[2] and b[1]/b[2] (positive denominators).
RatMin(a, b) == IF a[1] * b[2] <= b[1] * a[2] THEN a ELSE b

RatEq(a, b) == a[1] * b[2] = b[1] * a[2]

\* (width as f32 / svg_size.width()).min(height as f32 / svg_size.height())
FitScale(w, h, t) == RatMin(<<w, DocW(t)>>, <<h, DocH(t)>>)

PanSpeed == 10

Zoom1 == <<>>

Max(a, b) == IF a >= b THEN a ELSE b

\* The key blocks of section 4 act on the record [pan, zoom, auto_fit, dirty].
View(p, z, a, d) == [pan |-> p, zoom |-> z, auto_fit |-> a, dirty |-> d]

\* A variant: a pan key that does not set dirty.
PanByQuiet(v, dx, dy) ==
    [v EXCEPT !.pan = <<@[1] + dx, @[2] + dy>>, !.auto_fit = FALSE]

\* pan.0 += dx; pan.1 += dy; auto_fit = false; dirty = true
PanBy(v, dx, dy) ==
    [v EXCEPT !.pan = <<@[1] + dx, @[2] + dy>>, !.auto_fit = FALSE, !.dirty = TRUE]

\* A variant: a zoom key that leaves auto_fit as it is.
ZoomByKeepFit(v, op) ==
    [v EXCEPT !.zoom = Append(@, op), !.dirty = TRUE]

\* zoom *= 1.1 or zoom /= 1.1; auto_fit = false; dirty = true
ZoomBy(v, op) ==
    [v EXCEPT !.zoom = Append(@, op), !.auto_fit = FALSE, !.dirty = TRUE]

\* pan = (0.0, 0.0); zoom = 1.0; auto_fit = true; dirty = true
ResetView(v) ==
    [v EXCEPT !.pan = <<0, 0>>, !.zoom = Zoom1, !.auto_fit = TRUE, !.dirty = TRUE]

Keys == {"K", "J", "H", "L", "Equal", "NumPadPlus", "Minus", "NumPadMinus", "R"}

\* One `if window.is_key_down(..) {..}` block: v after the block, when the
\* key is down (then) or not.
IfDown(down, then, v) == IF down THEN then ELSE v

\* A variant: the R block ahead of the pan and zoom blocks.
ApplyKeysResetFirst(v, ks) ==
    LET v0 == IfDown("R" \in ks, ResetView(v), v)
        v1 == IfDown("K" \in ks, PanBy(v0, 0, PanSpeed), v0)
        v2 == IfDown("J" \in ks, PanBy(v1, 0, -PanSpeed), v1)
        v3 == IfDown("H" \in ks, PanBy(v2, PanSpeed, 0), v2)
        v4 == IfDown("L" \in ks, PanBy(v3, -PanSpeed, 0), v3)
        v5 == IfDown("Equal" \in ks \/ "NumPadPlus" \in ks, ZoomBy(v4, "mul"), v4)
    IN  IfDown("Minus" \in ks \/ "NumPadMinus" \in ks, ZoomBy(v5, "div"), v5)

\* The seven `if window.is_key_down(..)` blocks of lines 211-246, in source
\* order; ks is the set of keys that are down.
ApplyKeys(v, ks) ==
    LET v1 == IfDown("K" \in ks, PanBy(v, 0, PanSpeed), v)
        v2 == IfDown("J" \in ks, PanBy(v1, 0, -PanSpeed), v1)
        v3 == IfDown("H" \in ks, PanBy(v2, PanSpeed, 0), v2)
        v4 == IfDown("L" \in ks, PanBy(v3, -PanSpeed, 0), v3)
        v5 == IfDown("Equal" \in ks \/ "NumPadPlus" \in ks, ZoomBy(v4, "mul"), v4)
        v6 == IfDown("Minus" \in ks \/ "NumPadMinus" \in ks, ZoomBy(v5, "div"), v5)
    IN  IfDown("R" \in ks, ResetView(v6), v6)

\* The kinds of key that are down in ks.
KeyKinds(ks) ==
    {k \in {"pan"} : ks \cap {"K", "J", "H", "L"} # {}}
        \cup {k \in {"zoom"} : ks \cap {"Equal", "NumPadPlus", "Minus", "NumPadMinus"} # {}}
        \cup {k \in {"reset"} : "R" \in ks}

Abs(x) == IF x >= 0 THEN x ELSE -x

\* The record stays within the bounds of the model.
ViewInBounds(v) ==
    /\ Abs(v.pan[1]) <= MaxPan * PanSpeed
    /\ Abs(v.pan[2]) <= MaxPan * PanSpeed
    /\ Len(v.zoom) <= MaxZoom

----
\* The file system and the watcher thread.

\* What the steady-state watch is registered on: debouncer.watch(&svg_path, ..)
\* watches the file itself ("file"); a watch on its parent would be "dir".
WatchTarget == "file"

\* The watcher's callback: tx.send(res), when the watch reports and the model's
\* queue has room.
Notify(m) ==
    IF watchLive THEN chan' = Append(chan, m) ELSE chan' = chan

CanNotify == watchLive => Len(chan) < MaxQueue

\* Some process overwrites the tracked file with content c.
FsWrite(c) ==
    /\ pc \notin {"done", "failed"}
    /\ file # "missing"
    /\ CanNotify
    /\ file' = c
    /\ Notify(OkMsg(<<Ev({SvgPath}, "Modify")>>))
    /\ missed' = (missed \/ ~watchLive)
    /\ UNCHANGED <<watchLive, loopVars, loads, drained, reloaded, keys, owed, waitVars, pixVars, centreVars>>
    /\ UNCHANGED schedVars

\* The tracked file is unlinked.  A watch on the directory goes on.  A watch on
\* the file itself reports the removal and then depends on the platform's
\* backend: with inotify it ends with the inode, a path-based backend goes on.
FsRemove ==
    /\ pc \notin {"done", "failed"}
    /\ file # "missing"
    /\ CanNotify
    /\ file' = "missing"
    /\ Notify(OkMsg(<<Ev({SvgPath}, "Remove")>>))
    /\ watchLive' \in IF WatchTarget = "dir" THEN {watchLive} ELSE {watchLive, FALSE}
    /\ UNCHANGED <<loopVars, histVars, waitVars, pixVars, centreVars>>
    /\ UNCHANGED schedVars

\* The tracked file is created again with content c.
FsCreate(c) ==
    /\ pc \notin {"done", "failed"}
    /\ file = "missing"
    /\ CanNotify
    /\ file' = c
    /\ Notify(OkMsg(<<Ev({SvgPath}, "Create")>>))
    /\ UNCHANGED <<watchLive, loopVars, histVars, waitVars, pixVars, centreVars>>
    /\ UNCHANGED schedVars

\* The watcher delivers message m for some other reason: a process opening or
\* closing the file, a change of another path, a failure of the watch.
WatcherSend(m) ==
    /\ pc \notin {"done", "failed"}
    /\ watchLive
    /\ Len(chan) < MaxQueue
    /\ chan' = Append(chan, m)
    /\ UNCHANGED <<file, watchLive, loopVars, histVars, waitVars, pixVars, centreVars>>
    /\ UNCHANGED schedVars

----
\* The frame buffer (lines 150, 196, 251-254) and what is known of the frames.

\* A buffer of len pixels: all 0 ("zeros"), all 0x00333333 ("background"),
\* the pixels render returned ("svg"), or what buffer.resize left of an
\* earlier content, cut or padded with 0 ("resized").
Buf(len, img) == [len |-> len, img |-> img]

\* Line 150: vec![0u32; width * height].
NewBuffer(w, h) == Buf(w * h, "zeros")

\* Line 196: buffer.resize(n, 0).
BufResize(b, n) == Buf(n, IF b.img = "zeros" THEN "zeros" ELSE "resized")

\* Line 254: buffer.fill(0x00333333) writes every element and keeps the length.
BufFill(b) == Buf(b.len, "background")

\* Lines 23, 44, 56: render returns one u32 for each pixel of a pixmap of
\* width x height.
Rendered(w, h) == Buf(w * h, "svg")

\* What a render reads: the arguments of render(..) at line 252.
RenderArgs == <<tree, width, height, pan, zoom, fit_scale>>

\* The history of the frames is kept in the behaviours that start with did =
\* "none"; in those that start with did = "off" it stays as it is at the start.
Recording == did # "off"

\* The iteration observes things.
See(things) == seen' = IF Recording THEN seen \cup things ELSE seen

\* The step leaves the arguments of render as the last render found them.
Staled == fresh' = (Recording /\ fresh /\ RenderArgs' = RenderArgs)

\* The iteration so far found no key down, no change of focus and no message.
Calm == keys = {} /\ seen \cap {"focus", "blur", "msg"} = {}

\* Lines 130-131, 137-158: the window is open, nothing has been drawn; the
\* history of the frames is kept or not.
FrameInit ==
    /\ closed = FALSE
    /\ buffer = NewBuffer(800, 600)
    /\ did \in {"none", "off"}
    /\ calm = FALSE
    /\ fresh = FALSE
    /\ seen = {}
    /\ lastSize = <<800, 600>>

----
\* The loop of main(), lines 160-294.

\* A variant: the loop without the focus check of lines 161-164.
TopNoFocusCheck(open, esc, active) ==
    /\ pc = "top"
    /\ IF open /\ ~esc
       THEN /\ pc' = "drain"
            /\ dirty' = dirty
            /\ was_active' = active
            /\ UNCHANGED <<tree, width, height, viewVars, reload, histVars>>
       ELSE /\ pc' = "done"
            /\ UNCHANGED <<tree, width, height, viewVars, dirty, was_active, reload, histVars>>
    /\ UNCHANGED <<envVars, waitVars, pixVars, centreVars>>
    /\ See(IF open /\ ~esc /\ active # was_active
           THEN {IF active THEN "focus" ELSE "blur"}
           ELSE {})
    /\ UNCHANGED <<closed, buffer, did, calm, fresh, lastSize>>

\* while window.is_open() && !window.is_key_down(Key::Escape), then the focus
\* check of lines 161-165.
Top(open, esc, active) ==
    /\ pc = "top"
    /\ IF open /\ ~esc
       THEN /\ pc' = "drain"
            /\ dirty' = (dirty \/ (active /\ ~was_active))
            /\ was_active' = active
            /\ UNCHANGED <<tree, width, height, viewVars, reload, histVars>>
       ELSE /\ pc' = "done"
            /\ UNCHANGED <<tree, width, height, viewVars, dirty, was_active, reload, histVars>>
    /\ UNCHANGED <<envVars, waitVars, pixVars, centreVars>>
    /\ See(IF open /\ ~esc /\ active # was_active
           THEN {IF active THEN "focus" ELSE "blur"}
           ELSE {})
    /\ UNCHANGED <<closed, buffer, did, calm, fresh, lastSize>>

\* Lines 168-180: let mut reload = false; while let Ok(res) = rx.try_recv() {..}
Drain ==
    /\ pc = "drain"
    /\ reload' = DrainFlag(FALSE, chan)
    /\ chan' = <<>>
    /\ drained' = DrainRecord(chan)
    /\ owed' = (owed \/ reload')
    /\ pc' = "reload"
    /\ UNCHANGED <<file, watchLive, tree, width, height, viewVars, dirty, was_active,
                   loads, reloaded, keys, missed, waitVars, pixVars, centreVars>>
    /\ See(IF chan # <<>> THEN {"msg"} ELSE {})
    /\ UNCHANGED <<closed, buffer, did, calm, fresh, lastSize>>

\* A variant: tree = load_svg(..), whatever it returned.
ReloadOverwrite ==
    /\ pc = "reload"
    /\ IF reload
       THEN /\ loads' = loads + 1
            /\ owed' = FALSE
            /\ tree' = LoadSvg(file)
            /\ IF LoadSvg(file) # None
               THEN /\ pan' = <<0, 0>>
                    /\ zoom' = Zoom1
                    /\ auto_fit' = TRUE
                    /\ dirty' = TRUE
                    /\ reloaded' = TRUE
                    /\ UNCHANGED <<fit_scale>>
               ELSE UNCHANGED <<viewVars, dirty, reloaded>>
       ELSE UNCHANGED <<tree, viewVars, dirty, loads, reloaded, owed>>
    /\ pc' = "resize"
    /\ UNCHANGED <<envVars, width, height, was_active, reload, drained, keys, missed, waitVars, pixVars, centreVars>>
    /\ UNCHANGED <<closed, buffer, did, calm, seen, lastSize>>
    /\ Staled

\* A variant: a reload per drained batch of messages, the drain run again
\* while messages are queued.
ReloadAndDrainAgain ==
    /\ pc = "reload"
    /\ IF reload
       THEN /\ loads' = loads + 1
            /\ owed' = FALSE
            /\ IF LoadSvg(file) # None
               THEN /\ tree' = LoadSvg(file)
                    /\ pan' = <<0, 0>>
                    /\ zoom' = Zoom1
                    /\ auto_fit' = TRUE
                    /\ dirty' = TRUE
                    /\ reloaded' = TRUE
                    /\ UNCHANGED <<fit_scale>>
               ELSE UNCHANGED <<tree, viewVars, dirty, reloaded>>
       ELSE UNCHANGED <<tree, viewVars, dirty, loads, reloaded, owed>>
    /\ pc' = IF reload /\ chan # <<>> THEN "drain" ELSE "resize"
    /\ UNCHANGED <<envVars, width, height, was_active, reload, drained, keys, missed, waitVars, pixVars, centreVars>>
    /\ UNCHANGED <<closed, buffer, did, calm, seen, lastSize>>
    /\ Staled

\* A variant: a successful reload that leaves the viewport and dirty alone.
ReloadKeepView ==
    /\ pc = "reload"
    /\ IF reload
       THEN /\ loads' = loads + 1
            /\ owed' = FALSE
            /\ IF LoadSvg(file) # None
               THEN /\ tree' = LoadSvg(file)
                    /\ reloaded' = TRUE
                    /\ UNCHANGED <<viewVars, dirty>>
               ELSE UNCHANGED <<tree, viewVars, dirty, reloaded>>
       ELSE UNCHANGED <<tree, viewVars, dirty, loads, reloaded, owed>>
    /\ pc' = "resize"
    /\ UNCHANGED <<envVars, width, height, was_active, reload, drained, keys, missed, waitVars, pixVars, centreVars>>
    /\ UNCHANGED <<closed, buffer, did, calm, seen, lastSize>>
    /\ Staled

\* Lines 181-189: if reload { if let Some(new_tree) = load_svg(..) {..} }
Reload ==
    /\ pc = "reload"
    /\ IF reload
       THEN /\ loads' = loads + 1
            /\ owed' = FALSE
            /\ IF LoadSvg(file) # None
               THEN /\ tree' = LoadSvg(file)
                    /\ pan' = <<0, 0>>
                    /\ zoom' = Zoom1
                    /\ auto_fit' = TRUE
                    /\ dirty' = TRUE
                    /\ reloaded' = TRUE
                    /\ UNCHANGED <<fit_scale>>
               ELSE UNCHANGED <<tree, viewVars, dirty, reloaded>>
       ELSE UNCHANGED <<tree, viewVars, dirty, loads, reloaded, owed>>
    /\ pc' = "resize"
    /\ UNCHANGED <<envVars, width, height, was_active, reload, drained, keys, missed, waitVars, pixVars, centreVars>>
    /\ UNCHANGED <<closed, buffer, did, calm, seen, lastSize>>
    /\ Staled

\* A variant: the resize block without buffer.resize(..).
ResizeKeepBuffer(new_w, new_h) ==
    /\ pc = "resize"
    /\ IF new_w # width \/ new_h # height
       THEN /\ width' = Max(new_w, 1)
            /\ height' = Max(new_h, 1)
            /\ dirty' = TRUE
       ELSE UNCHANGED <<width, height, dirty>>
    /\ pc' = "fit"
    /\ drained' = NoDrain
    /\ UNCHANGED <<envVars, tree, viewVars, was_active, reload, loads, reloaded, keys, owed,
                   missed, waitVars, pixVars, centreVars>>
    /\ buffer' = buffer
    /\ See((IF new_w # width \/ new_h # height THEN {"resize"} ELSE {})
             \cup (IF <<new_w, new_h>> # lastSize THEN {"newsize"} ELSE {}))
    /\ lastSize' = IF Recording THEN <<new_w, new_h>> ELSE lastSize
    /\ UNCHANGED <<closed, did, calm>>
    /\ Staled

\* Lines 192-198: window.get_size() returned (new_w, new_h).
Resize(new_w, new_h) ==
    /\ pc = "resize"
    /\ IF new_w # width \/ new_h # height
       THEN /\ width' = Max(new_w, 1)
            /\ height' = Max(new_h, 1)
            /\ dirty' = TRUE
       ELSE UNCHANGED <<width, height, dirty>>
    /\ pc' = "fit"
    /\ drained' = NoDrain
    /\ UNCHANGED <<envVars, tree, viewVars, was_active, reload, loads, reloaded, keys, owed,
                   missed, waitVars, pixVars, centreVars>>
    /\ buffer' = IF new_w # width \/ new_h # height
                  THEN BufResize(buffer, Max(new_w, 1) * Max(new_h, 1))
                  ELSE buffer
    /\ See((IF new_w # width \/ new_h # height THEN {"resize"} ELSE {})
             \cup (IF <<new_w, new_h>> # lastSize THEN {"newsize"} ELSE {}))
    /\ lastSize' = IF Recording THEN <<new_w, new_h>> ELSE lastSize
    /\ UNCHANGED <<closed, did, calm>>
    /\ Staled

\* Lines 201-207.
Fit ==
    /\ pc = "fit"
    /\ IF dirty /\ auto_fit /\ tree # None
       THEN fit_scale' = FitScale(width, height, tree)
       ELSE UNCHANGED fit_scale
    /\ pc' = "input"
    /\ UNCHANGED <<envVars, tree, width, height, pan, zoom, auto_fit, dirty, was_active,
                   reload, histVars, waitVars, pixVars, centreVars>>
    /\ UNCHANGED <<closed, buffer, did, calm, seen, lastSize>>
    /\ Staled

\* Lines 210-246: ks is the set of keys is_key_down reports down.
Input(ks) ==
    /\ pc = "input"
    /\ \E v \in {ApplyKeys(View(pan, zoom, auto_fit, dirty), ks)} :
           /\ ViewInBounds(v)
           /\ pan' = v.pan
           /\ zoom' = v.zoom
           /\ auto_fit' = v.auto_fit
           /\ dirty' = v.dirty
    /\ keys' = KeyKinds(ks)
    /\ pc' = "present"
    /\ UNCHANGED <<envVars, tree, width, height, fit_scale, was_active, reload,
                   loads, drained, reloaded, owed, missed, waitVars, pixVars, centreVars>>
    /\ UNCHANGED <<closed, buffer, did, calm, seen, lastSize>>
    /\ Staled

\* The history of an iteration ends with its last step; `reload`, a local of
\* the loop body that is not read after line 181, is dropped with it.
EndOfIteration == loads' = 0 /\ reloaded' = FALSE /\ keys' = {} /\ seen' = {}

\* Lines 249-259: render (or fill), dirty = false, update_with_buffer; a
\* presentation error leaves main through `?`.
Present(ok) ==
    /\ pc = "present"
    /\ dirty
    /\ dirty' = FALSE
    /\ pc' = IF ok THEN "top" ELSE "failed"
    /\ reload' = FALSE
    /\ EndOfIteration
    /\ UNCHANGED <<envVars, tree, width, height, viewVars, was_active, drained, owed, missed,
                   waitVars, pixVars, centreVars>>
    /\ buffer' = IF tree # None THEN Rendered(width, height) ELSE BufFill(buffer)
    /\ did' = IF Recording THEN "render" ELSE did
    /\ calm' = (Recording /\ Calm)
    /\ fresh' = Recording
    /\ UNCHANGED <<closed, lastSize>>

\* A variant: the idle branch taken whether or not a redraw is pending.
IdleWaitAlways ==
    /\ pc = "present"
    /\ pc' = "wait"
    /\ reload' = FALSE
    /\ EndOfIteration
    /\ UNCHANGED <<envVars, tree, width, height, viewVars, dirty, was_active, drained, owed, missed,
                   waitVars, pixVars, centreVars>>
    /\ did' = IF Recording THEN "idle" ELSE did
    /\ calm' = (Recording /\ Calm)
    /\ UNCHANGED <<closed, buffer, fresh, lastSize>>

\* Lines 260-270: window.update(), then the main thread blocks in recv_timeout.
IdleWait ==
    /\ pc = "present"
    /\ ~dirty
    /\ pc' = "wait"
    /\ reload' = FALSE
    /\ EndOfIteration
    /\ UNCHANGED <<envVars, tree, width, height, viewVars, dirty, was_active, drained, owed, missed,
                   waitVars, pixVars, centreVars>>
    /\ did' = IF Recording THEN "idle" ELSE did
    /\ calm' = (Recording /\ Calm)
    /\ UNCHANGED <<closed, buffer, fresh, lastSize>>

\* Lines 270-289: recv_timeout returned Ok(res).
IdleRecv ==
    /\ pc = "wait"
    /\ chan # <<>>
    /\ chan' = Tail(chan)
    /\ dirty' = (dirty \/ IdleMarks(Head(chan)))
    /\ owed' = (owed \/ IdleMarks(Head(chan)))
    /\ pc' = "top"
    /\ UNCHANGED <<file, watchLive, tree, width, height, viewVars, was_active, reload,
                   loads, drained, reloaded, keys, missed, waitVars, pixVars, centreVars>>
    /\ See({"msg"} \cup (IF IdleMarks(Head(chan)) THEN {"wake"} ELSE {}))
    /\ UNCHANGED <<closed, buffer, did, calm, fresh, lastSize>>

\* A variant: rx.recv() in place of rx.recv_timeout(timeout): the receive
\* returns only with a message.
IdleNoTimeout ==
    /\ pc = "wait"
    /\ FALSE
    /\ pc' = "top"
    /\ UNCHANGED <<envVars, tree, width, height, viewVars, dirty, was_active, reload,
                   histVars, waitVars, pixVars, centreVars>>
    /\ UNCHANGED schedVars

\* Line 290: recv_timeout returned Err(Timeout): nothing arrived in time.
IdleTimeout ==
    /\ pc = "wait"
    /\ chan = <<>>
    /\ pc' = "top"
    /\ UNCHANGED <<envVars, tree, width, height, viewVars, dirty, was_active, reload,
                   histVars, waitVars, pixVars, centreVars>>
    /\ UNCHANGED schedVars

----
\* The specification of the loop.

\* Sizes window.get_size() reports.
WinSizes == {<<800, 600>>, <<400, 300>>, <<0, 600>>}

\* Messages the watcher sends besides the reports of writes, removals and
\* creations of the tracked file.
OtherMsgs ==
    { ErrMsg,
      OkMsg(<<Ev({SvgPath}, "AccessOpenAny")>>),
      OkMsg(<<Ev({OtherPath}, "Modify")>>) }

\* Key states of the input step in Spec.
SomeKeySets == {{}, {"Equal"}, {"R"}}

\* Window sizes in Spec.
SomeWinSizes == {<<800, 600>>, <<400, 300>>}

\* The variables of wait_for_creation and of the pixel conversion, at rest.
WaitIdle ==
    wpc = "off" /\ wchan = <<>> /\ parentExists = TRUE /\ wwatch = FALSE /\ wgot = {}

PixIdle == px = <<0, 0, 0, 0>> /\ out = <<>>

CentreIdle == sizes = <<800, 600, 400, 300>> /\ centred = <<>>

\* A variant: the loop entered with dirty false.
LoopInitClean(active) ==
    /\ file \in Contents
    /\ watchLive = TRUE
    /\ pc = "top"
    /\ \E c0 \in FileStates : tree = LoadSvg(c0)
    /\ width = 800
    /\ height = 600
    /\ pan = <<0, 0>>
    /\ zoom = Zoom1
    /\ auto_fit = TRUE
    /\ fit_scale = <<1, 1>>
    /\ dirty = FALSE
    /\ was_active = active
    /\ reload = FALSE
    /\ loads = 0
    /\ drained = NoDrain
    /\ reloaded = FALSE
    /\ keys = {}
    /\ owed = FALSE
    /\ missed = FALSE
    /\ FrameInit
    /\ WaitIdle
    /\ PixIdle
    /\ CentreIdle

\* main() on entry to the loop (lines 118-158): the first load_svg has read
\* some content c0, the watch is registered on an existing file, the window
\* is 800x600 and the viewport is the default one.
LoopInitWith(active) ==
    /\ file \in Contents
    /\ watchLive = TRUE
    /\ pc = "top"
    /\ \E c0 \in FileStates : tree = LoadSvg(c0)
    /\ width = 800
    /\ height = 600
    /\ pan = <<0, 0>>
    /\ zoom = Zoom1
    /\ auto_fit = TRUE
    /\ fit_scale = <<1, 1>>
    /\ dirty = TRUE
    /\ was_active = active
    /\ reload = FALSE
    /\ loads = 0
    /\ drained = NoDrain
    /\ reloaded = FALSE
    /\ keys = {}
    /\ owed = FALSE
    /\ missed = FALSE
    /\ FrameInit
    /\ WaitIdle
    /\ PixIdle
    /\ CentreIdle

\* The window has the focus when it is created.
LoopInit == LoopInitWith(TRUE)

\* The loop is entered with nothing on the channel yet.
Init == LoopInit /\ chan = <<>> /\ did = "off"

Next ==
    \/ \E open, esc \in BOOLEAN : Top(open, esc, TRUE)
    \/ Drain
    \/ Reload
    \/ \E s \in SomeWinSizes : Resize(s[1], s[2])
    \/ Fit
    \/ \E ks \in SomeKeySets : Input(ks)
    \/ \E ok \in BOOLEAN : Present(ok)
    \/ IdleWait
    \/ IdleRecv
    \/ IdleTimeout
    \/ \E c \in Contents : FsWrite(c)
    \/ FsRemove
    \/ \E c \in Contents : FsCreate(c)
    \/ \E m \in OtherMsgs : WatcherSend(m)

Spec == Init /\ [][Next]_vars

\* The same loop under the inputs of the viewport: combinations of keys,
\* the only file events are writes of documents.
AllKeySets ==
    {ks \in SUBSET {"K", "J", "H", "L", "Equal", "Minus", "R"} : Cardinality(ks \ {"R"}) <= 2}
        \cup {{"NumPadPlus"}, {"NumPadMinus"}, {"NumPadPlus", "NumPadMinus", "R"}, Keys}

NextView ==
    \/ \E open, esc \in BOOLEAN : Top(open, esc, TRUE)
    \/ Drain
    \/ Reload
    \/ \E s \in SomeWinSizes : Resize(s[1], s[2])
    \/ Fit
    \/ \E ks \in AllKeySets : Input(ks)
    \/ \E ok \in BOOLEAN : Present(ok)
    \/ IdleWait
    \/ IdleRecv
    \/ IdleTimeout
    \/ \E c \in Docs : FsWrite(c)

SpecView == Init /\ [][NextView]_vars

\* The loop entered with messages already queued (the watch is registered at
\* line 126, before the window is created), and nothing sent afterwards: the
\* messages range over every kind of event and every way an event names the
\* tracked path.
PathSets == {{SvgPath}, {OtherPath}, {OtherPath, SvgPath}}

AllEvents == {Ev(p, k) : p \in PathSets, k \in Kinds}

AllMsgs ==
    {ErrMsg, OkMsg(<<>>)}
        \cup {OkMsg(<<e>>) : e \in AllEvents}
        \cup {OkMsg(<<Ev({SvgPath}, "AccessOpenAny"), e>>) :
                e \in {Ev({SvgPath}, "Modify"), Ev({OtherPath}, "Modify")}}

Queues == UNION {[1..n -> AllMsgs] : n \in 0..MaxQueue}

InitFilter == LoopInit /\ chan \in Queues /\ did = "off"

NextFilter ==
    \/ \E open \in BOOLEAN : Top(open, FALSE, TRUE)
    \/ Drain
    \/ Reload
    \/ Resize(800, 600)
    \/ Fit
    \/ Input({})
    \/ Present(TRUE)
    \/ IdleWait
    \/ IdleTimeout

SpecFilter == InitFilter /\ [][NextFilter]_vars

----
\* The loop under every input that decides between drawing and idling: the
\* window gains and loses the focus, is resized (to nothing too), is closed;
\* keys are down; the file is rewritten with a document or with garbage; the
\* watcher reports an event the filter drops, or fails.

\* The user closes the window: window.is_open() is false from then on.
CloseWindow ==
    /\ pc \notin {"done", "failed"}
    /\ ~closed
    /\ closed' = TRUE
    /\ UNCHANGED <<envVars, loopVars, histVars, waitVars, pixVars, centreVars,
                   buffer, did, calm, fresh, seen, lastSize>>

SchedSizes == {<<800, 600>>, <<0, 300>>}

SchedKeySets == {{}, {"H"}, {"Equal"}, {"R"}, {"H", "R"}}

SchedMsgs == {ErrMsg, OkMsg(<<Ev({SvgPath}, "AccessOpenAny")>>)}

\* The window is created with or without the focus (line 152).
InitSched ==
    /\ \E a \in BOOLEAN : LoopInitWith(a)
    /\ <<file, tree>> \in {<<"docA", None>>, <<"bad", "docA">>}
    /\ chan = <<>>
    /\ did = "none"

\* One step of the main thread.
LoopStep ==
    \/ \E esc, active \in BOOLEAN : Top(~closed, esc, active)
    \/ Drain
    \/ Reload
    \/ \E s \in SchedSizes : Resize(s[1], s[2])
    \/ Fit
    \/ \E ks \in SchedKeySets : Input(ks)
    \/ \E ok \in BOOLEAN : Present(ok)
    \/ IdleWait
    \/ IdleRecv
    \/ IdleTimeout

NextSched ==
    \/ LoopStep
    \/ CloseWindow
    \/ Len(chan) < MaxPending /\ FsWrite(file)
    \/ Len(chan) < MaxPending /\ \E m \in SchedMsgs : WatcherSend(m)

SpecSched == InitSched /\ [][NextSched]_vars

----
\* The loop as a thread that keeps running: the window is never resized, no
\* key but Escape is down, the file is rewritten, the window is closed at
\* some time.  A step of the loop that can be taken is taken (the main thread
\* is scheduled, and recv_timeout returns with a message or at its timeout),
\* which is weak fairness of the loop's steps; nothing is asked of the file
\* system and of the user.

LiveStep ==
    \/ \E esc \in BOOLEAN : Top(~closed, esc, TRUE)
    \/ Drain
    \/ Reload
    \/ Resize(800, 600)
    \/ Fit
    \/ Input({})
    \/ \E ok \in BOOLEAN : Present(ok)
    \/ IdleWait
    \/ IdleRecv
    \/ IdleTimeout

NextLive ==
    \/ LiveStep
    \/ CloseWindow
    \/ FsWrite(file)

SpecLive == InitSched /\ [][NextLive]_vars /\ WF_vars(LiveStep)

----
\* The pixel conversion of render, lines 42-56.

\* A u32 is the pair <<high 16 bits, low 16 bits>>.
Half == 2^16

\* 0x00333333
Background == <<51, 13107>>

RECURSIVE BitOr(_, _)
\* x | y on one half
BitOr(x, y) ==
    IF x = 0 THEN y
    ELSE IF y = 0 THEN x
    ELSE (IF x % 2 = 1 \/ y % 2 = 1 THEN 1 ELSE 0) + 2 * BitOr(x \div 2, y \div 2)

\* u | v
Or32(u, v) == <<BitOr(u[1], v[1]), BitOr(u[2], v[2])>>

\* x << 16 and x << 8 in u32, for x below 2^31: the bits shifted past bit 31
\* are lost.
Shl16(x) == <<x % Half, 0>>

Shl8(x) == <<(x \div 256) % Half, (x % 256) * 256>>

\* x as u32, for x below 2^31
Word(x) == <<(x \div Half) % Half, x % Half>>

\* A variant: without .min(255).
UnPremulNoClamp(c, a) == (c * 255) \div a

\* (c * 255 / a).min(255): c and a are u8 values widened to u32 (line 46), so
\* the product, at most 255 * 255, is the same in u32 as in the integers.
UnPremul(c, a) ==
    LET q == (c * 255) \div a
    IN  IF q <= 255 THEN q ELSE 255

\* The closure of lines 45-55 on the pixel p = <<r, g, b, a>>.
ToDisplay(p) ==
    IF p[4] = 0
    THEN Background
    ELSE LET r == UnPremul(p[1], p[4])
             g == UnPremul(p[2], p[4])
             b == UnPremul(p[3], p[4])
         IN  Or32(Or32(Shl16(r), Shl8(g)), Word(b))

\* Channel values tried for r, g and b; alpha takes every value.
ChanSamples == {0, 1, 2, 127, 128, 254, 255}

\* The loop's variables, at rest while another part of the program is checked.
LoopOff ==
    /\ file = "missing" /\ watchLive = FALSE /\ chan = <<>>
    /\ pc = "off" /\ tree = None /\ width = 800 /\ height = 600
    /\ pan = <<0, 0>> /\ zoom = Zoom1 /\ auto_fit = TRUE /\ fit_scale = <<1, 1>>
    /\ dirty = TRUE /\ was_active = TRUE /\ reload = FALSE
    /\ loads = 0 /\ drained = NoDrain /\ reloaded = FALSE /\ keys = {}
    /\ owed = FALSE /\ missed = FALSE
    /\ FrameInit
    /\ did = "off"

InitPix ==
    /\ px \in ChanSamples \X ChanSamples \X ChanSamples \X (0..255)
    /\ out = <<>>
    /\ WaitIdle
    /\ LoopOff
    /\ CentreIdle

\* The map of line 45 applied to the pixel.
Convert ==
    /\ out = <<>>
    /\ out' = ToDisplay(px)
    /\ UNCHANGED <<px, envVars, loopVars, histVars, waitVars>>
    /\ UNCHANGED <<schedVars, centreVars>>

SpecPix == InitPix /\ [][Convert]_vars

----
\* wait_for_creation, lines 66-103.

\* A message received by the loop of lines 88-102 names the tracked path.
NamesPath(m) == \E i \in 1..Len(m.events) : SvgPath \in m.events[i].paths

\* Line 67: if path.exists() { return Ok(()) }
WCheck ==
    /\ wpc = "start"
    /\ wpc' = IF file # "missing" THEN "ok" ELSE "setup"
    /\ UNCHANGED <<wchan, parentExists, wwatch, wgot, envVars, loopVars, histVars, pixVars, centreVars>>
    /\ UNCHANGED schedVars

\* Lines 75-86: new_debouncer(..)? and debouncer.watch(&parent, ..)?.  made
\* tells whether the debouncer and the watch could be created at all;
\* watching a directory that does not exist is an error of the watcher.
WSetup(made) ==
    /\ wpc = "setup"
    /\ IF made /\ parentExists
       THEN wpc' = "recv" /\ wwatch' = TRUE
       ELSE wpc' = "err" /\ wwatch' = FALSE
    /\ UNCHANGED <<wchan, parentExists, wgot, envVars, loopVars, histVars, pixVars, centreVars>>
    /\ UNCHANGED schedVars

\* What is recorded of a received message.
MsgKind(m) == IF ~m.ok THEN "error" ELSE IF NamesPath(m) THEN "named" ELSE "other"

\* A variant: Ok(Err(_)) returned as an error.
WRecvErrorFatal ==
    /\ wpc = "recv"
    /\ wchan # <<>>
    /\ wchan' = Tail(wchan)
    /\ wgot' = wgot \cup {MsgKind(Head(wchan))}
    /\ wpc' = IF Head(wchan).ok
              THEN IF NamesPath(Head(wchan)) /\ file # "missing" THEN "ok" ELSE "recv"
              ELSE "err"
    /\ UNCHANGED <<parentExists, wwatch, envVars, loopVars, histVars, pixVars, centreVars>>
    /\ UNCHANGED schedVars

\* Lines 88-102: one rx.recv() and the match on it.  The sender lives in the
\* debouncer, which lives as long as the loop: recv never returns Err.
WRecv ==
    /\ wpc = "recv"
    /\ wchan # <<>>
    /\ wchan' = Tail(wchan)
    /\ wgot' = wgot \cup {MsgKind(Head(wchan))}
    /\ wpc' = IF Head(wchan).ok
              THEN IF NamesPath(Head(wchan)) /\ file # "missing" THEN "ok" ELSE "recv"
              ELSE IF file # "missing" THEN "ok" ELSE "recv"
    /\ UNCHANGED <<parentExists, wwatch, envVars, loopVars, histVars, pixVars, centreVars>>
    /\ UNCHANGED schedVars

\* The callback of line 82, once the watch on the parent is registered.
WNotify(m) ==
    IF wwatch THEN wchan' = Append(wchan, m) ELSE wchan' = wchan

WRunning == wpc \in {"start", "setup", "recv"}

WRoom == wwatch => Len(wchan) < MaxQueue

\* Some process creates the tracked file.
WFsCreate(c) ==
    /\ WRunning /\ WRoom
    /\ parentExists
    /\ file = "missing"
    /\ file' = c
    /\ WNotify(OkMsg(<<Ev({SvgPath}, "Create")>>))
    /\ UNCHANGED <<wpc, parentExists, wwatch, wgot, watchLive, chan, loopVars, histVars, pixVars, centreVars>>
    /\ UNCHANGED schedVars

\* Some process removes it again.
WFsRemove ==
    /\ WRunning /\ WRoom
    /\ file # "missing"
    /\ file' = "missing"
    /\ WNotify(OkMsg(<<Ev({SvgPath}, "Remove")>>))
    /\ UNCHANGED <<wpc, parentExists, wwatch, wgot, watchLive, chan, loopVars, histVars, pixVars, centreVars>>
    /\ UNCHANGED schedVars

\* The parent directory is created.
WMkParent ==
    /\ WRunning
    /\ ~parentExists
    /\ parentExists' = TRUE
    /\ UNCHANGED <<wpc, wchan, wwatch, wgot, envVars, loopVars, histVars, pixVars, centreVars>>
    /\ UNCHANGED schedVars

\* The watcher reports a change of another file of the directory, or a
\* failure of the watch.
WSend(m) ==
    /\ WRunning
    /\ wwatch
    /\ Len(wchan) < MaxQueue
    /\ wchan' = Append(wchan, m)
    /\ UNCHANGED <<wpc, parentExists, wwatch, wgot, envVars, loopVars, histVars, pixVars, centreVars>>
    /\ UNCHANGED schedVars

\* wait_for_creation is called with the file there or not, and its parent
\* directory there or not.
InitWait ==
    /\ wpc = "start"
    /\ wchan = <<>>
    /\ wwatch = FALSE
    /\ wgot = {}
    /\ parentExists \in BOOLEAN
    /\ file \in IF parentExists THEN FileStates ELSE {"missing"}
    /\ watchLive = FALSE /\ chan = <<>>
    /\ pc = "off" /\ tree = None /\ width = 800 /\ height = 600
    /\ pan = <<0, 0>> /\ zoom = Zoom1 /\ auto_fit = TRUE /\ fit_scale = <<1, 1>>
    /\ dirty = TRUE /\ was_active = TRUE /\ reload = FALSE
    /\ loads = 0 /\ drained = NoDrain /\ reloaded = FALSE /\ keys = {}
    /\ owed = FALSE /\ missed = FALSE
    /\ FrameInit
    /\ did = "off"
    /\ PixIdle
    /\ CentreIdle

NextWait ==
    \/ WCheck
    \/ \E made \in BOOLEAN : WSetup(made)
    \/ WRecv
    \/ \E c \in Contents : WFsCreate(c)
    \/ WFsRemove
    \/ WMkParent
    \/ \E m \in {ErrMsg, OkMsg(<<Ev({OtherPath}, "Create")>>)} : WSend(m)

SpecWait == InitWait /\ [][NextWait]_vars

----
\* Properties of the loop.

\* a <= b and a >= b for quotients with positive denominators.
RatLe(a, b) == a[1] * b[2] <= b[1] * a[2]

\* fit_scale is min(width / doc_w, height / doc_h) for the loaded document:
\* it is one of the two quotients and exceeds neither.
FitIsCurrent ==
    /\ tree # None
    /\ \/ fit_scale[1] * DocW(tree) = width * fit_scale[2]
       \/ fit_scale[1] * DocH(tree) = height * fit_scale[2]
    /\ RatLe(fit_scale, <<width, DocW(tree)>>)
    /\ RatLe(fit_scale, <<height, DocH(tree)>>)

\* A step in which load_svg is called.
LoadStep == loads' = loads + 1

\* C1: a failed reload changes nothing.  In every step that calls load_svg
\* while the file is missing or unparsable, the cached document, pan, zoom and
\* auto_fit are left as they were; and the cached document changes only in a
\* step that calls load_svg on parsable content, which installs that document
\* and resets the viewport (so a loaded document never goes back to None).
C1_FailedReloadChangesNothing ==
    /\ [][(LoadStep /\ LoadSvg(file) = None)
            => (tree' = tree /\ pan' = pan /\ zoom' = zoom /\ auto_fit' = auto_fit)]_vars
    /\ [][tree' # tree
            => (/\ LoadStep
                /\ file \in Docs
                /\ tree' = file
                /\ pan' = <<0, 0>> /\ zoom' = Zoom1 /\ auto_fit')]_vars

\* C1 witness: a reload has just failed with a document loaded and the
\* viewport moved away from the default.
C1_Witness ==
    /\ pc = "resize" /\ loads = 1 /\ ~reloaded
    /\ file \notin Docs
    /\ tree # None /\ zoom # Zoom1 /\ ~auto_fit

\* C2: every message that is a watch error or holds a reload-worthy event on
\* the tracked path is followed by a reload attempt.  Stated on the loop: when
\* an iteration has passed its reload step, no such message received so far
\* (by the drain or by the blocking receive of the idle wait) is still without
\* a load_svg call after it.
C2_ReloadFollowsEveryDelivery == (pc = "resize") => ~owed

\* C3: reloads are coalesced.  No iteration calls load_svg more than once, and
\* the drain step leaves the channel empty.
C3_ReloadsCoalesced ==
    /\ [](loads <= 1)
    /\ [][(pc = "drain" /\ pc' # "drain") => chan' = <<>>]_vars

\* C3 witness: the drain received two reload-worthy messages and the
\* iteration made one load_svg call.
C3_Witness == pc = "resize" /\ drained.worthy = 2 /\ loads = 1

\* C5: in an iteration whose reload succeeded, after the fit step and before
\* the input step, auto_fit holds, pan is (0,0), zoom is 1.0 and fit_scale is
\* min(width/doc_w, height/doc_h) for the new document and the window size.
C5_AutoFitAfterReload ==
    (pc = "input" /\ reloaded)
        => (auto_fit /\ pan = <<0, 0>> /\ zoom = Zoom1 /\ FitIsCurrent)

\* C5 witness: docB (200x400) was loaded into a 400x300 window; fit_scale is
\* 300/400.
C5_Witness ==
    /\ pc = "input" /\ reloaded
    /\ tree = "docB" /\ width = 400 /\ height = 300
    /\ RatEq(fit_scale, <<3, 4>>)

\* C6: every frame rendered with a document loaded and auto_fit set uses
\* fit_scale = min(width/doc_w, height/doc_h) for the window and document at
\* that render.
C6_FitScaleCurrentAtRender ==
    (pc = "present" /\ dirty /\ tree # None /\ auto_fit) => FitIsCurrent

\* C7: when the reset key is down, the viewport at the end of the input step
\* is pan = (0,0), zoom = 1.0, auto_fit = true, whatever it was before and
\* whichever other keys are down; and resetting the viewport of any reachable
\* state twice gives what resetting it once gives.
C7_ResetIsCanonical ==
    /\ (pc = "present" /\ "reset" \in keys)
          => (pan = <<0, 0>> /\ zoom = Zoom1 /\ auto_fit /\ dirty)
    /\ LET v == View(pan, zoom, auto_fit, dirty)
           r == ApplyKeys(v, {"R"})
       IN  /\ ApplyKeys(r, {"R"}) = r
           /\ r.pan = <<0, 0>> /\ r.zoom = Zoom1 /\ r.auto_fit

\* C7 witness: reset was down together with pan and zoom keys.
C7_Witness == pc = "present" /\ keys = {"pan", "zoom", "reset"} /\ pan = <<0, 0>>

\* C10: change detection survives remove + recreate.  No write to the tracked
\* file goes without a message on the channel.
C10_WritesAlwaysReported == ~missed

----
\* Properties of the drain filter, the pixel conversion and the startup wait.

\* C4: the drain sets the reload flag exactly when one of the messages it
\* receives is a watch error or holds an event that names the tracked path
\* and is not an open of the file (Access(Open(Any)), what the watcher reports
\* when a process opens it): an open of the tracked path never sets it, any
\* other kind on it does, an event on other paths only never does.
C4_FilterSetsFlag ==
    [][(pc = "drain" /\ pc' = "reload")
         => (reload' <=>
               \E i \in 1..Len(chan) :
                  \/ ~chan[i].ok
                  \/ \E j \in 1..Len(chan[i].events) :
                        /\ SvgPath \in chan[i].events[j].paths
                        /\ chan[i].events[j].kind # "AccessOpenAny")]_vars

\* C4 witness: the drain received an open of the tracked path and a
\* modification of another path, and the flag is not set.
C4_Witness ==
    /\ pc = "reload" /\ ~reload
    /\ <<TRUE, "AccessOpenAny">> \in drained.quiet
    /\ <<FALSE, "Modify">> \in drained.quiet

\* min(c * 255 / a, 255) without wrap-around.
Unpremultiplied(c, a) == IF (c * 255) \div a < 255 THEN (c * 255) \div a ELSE 255

\* C8: the display word of a pixel (r,g,b,a) with components in 0..255.  It is
\* the background 0x00333333 when a = 0; otherwise it is the three values
\* min(c*255/a, 255) packed as 0x00RRGGBB: every channel is at most 255, the
\* top byte is zero and no product needs more than 32 bits; and a pixel with
\* a = 255 keeps its r, g, b.
C8_PixelConversion ==
    (out # <<>>) =>
        LET r == px[1]  g == px[2]  b == px[3]  a == px[4]
        IN  /\ a = 0 => out = <<51, 13107>>
            /\ a # 0 => out = <<Unpremultiplied(r, a),
                                256 * Unpremultiplied(g, a) + Unpremultiplied(b, a)>>
            /\ out[1] < 256 /\ out[2] < 65536
            /\ \A c \in {r, g, b} : (c * 255) \div 65536 < 65536
            /\ a = 255 => out = <<r, 256 * g + b>>

\* C8 witness: a converted pixel whose red channel exceeds its alpha, so that
\* the clamp acts.
C8_Witness == out # <<>> /\ px[4] = 1 /\ px[1] = 255 /\ px[2] = 0

\* A step of the loop of wait_for_creation that receives m.
WReceives(m) == wpc = "recv" /\ wchan # <<>> /\ Head(wchan) = m /\ wchan' = Tail(wchan)

\* C9 as stated: the wait returns at once if the path exists and returns
\* success only when it exists; a watch error ends it as a fatal error; a
\* missing parent directory makes it block like a missing file.
C9_WaitAsStated ==
    /\ [][(wpc = "start" /\ wpc' # "start") => (wpc' = "ok" <=> file # "missing")]_vars
    /\ [][(wpc # "ok" /\ wpc' = "ok") => file # "missing"]_vars
    /\ [][WReceives(ErrMsg) => wpc' = "err"]_vars
    /\ [][(wpc = "setup" /\ wpc' # "setup" /\ ~parentExists) => wpc' = "recv"]_vars

\* C9 amended: the wait returns at once if the path exists and returns success
\* only when it exists; once it blocks it never fails: a watch error on the
\* channel ends it with success if the path exists by then and otherwise
\* leaves it blocked; it fails only when the watch cannot be set up, and a
\* missing parent directory is such a failure.
C9_WaitAmended ==
    /\ [][(wpc = "start" /\ wpc' # "start") => (wpc' = "ok" <=> file # "missing")]_vars
    /\ [][(wpc # "ok" /\ wpc' = "ok") => file # "missing"]_vars
    /\ [][WReceives(ErrMsg) => wpc' = (IF file # "missing" THEN "ok" ELSE "recv")]_vars
    /\ [][(wpc # "err" /\ wpc' = "err") => wpc = "setup"]_vars
    /\ [][(wpc = "setup" /\ wpc' # "setup" /\ ~parentExists) => wpc' = "err"]_vars

\* C9 witness: a watch error was received and the wait is still blocked, the
\* file still missing.
C9_Witness == wpc = "recv" /\ "error" \in wgot /\ file = "missing"

----
\* The loop's exit.

\* The main thread is inside the loop.
InLoop == pc \in {"top", "drain", "reload", "resize", "fit", "input", "present", "wait"}

\* What a reload, a render or a present would change.
Work == <<tree, buffer, did, loads, dirty, fresh, chan>>

\* The quit condition is tested at the start of an iteration and nowhere else,
\* and the exit does no reload, render or present.
ExitAtTop ==
    /\ [][(pc = "top" /\ pc' # "top" /\ closed) => (pc' = "done" /\ UNCHANGED Work)]_vars
    /\ [][(pc # "done" /\ pc' = "done") => (pc = "top" /\ UNCHANGED Work)]_vars

\* Every idle wait ends: the iteration completes.
WaitEnds == (pc = "wait") ~> (pc = "top")

\* C11 as stated: the quit condition is tested at the start of every
\* iteration, the exit does no further reload, render or present, the loop
\* leaves its body in no other way, every idle wait ends, and once the window
\* is closed the loop ends by that exit.
C11_ExitAsStated ==
    /\ ExitAtTop
    /\ [][(InLoop /\ ~InLoop') => pc' = "done"]_vars
    /\ WaitEnds
    /\ closed ~> (pc = "done")

\* C11 amended: as stated, but the loop has a second way out: a present that
\* fails (update_with_buffer returns an error, line 257) ends main with that
\* error, after its render; once the window is closed the loop ends, by the
\* exit at the start of an iteration unless a present fails first.
C11_Exit ==
    /\ ExitAtTop
    /\ [][(InLoop /\ ~InLoop') =>
            \/ pc' = "done"
            \/ pc' = "failed" /\ pc = "present" /\ dirty /\ did' = "render"]_vars
    /\ WaitEnds
    /\ closed ~> (pc \in {"done", "failed"})

\* C11 witness: the window was closed while the loop idled after a frame, and
\* the loop has left by the test at the start of the next iteration.
C11_Witness == pc = "done" /\ closed /\ did = "idle" /\ fresh

----
\* Automatic fit and manual viewport.

\* The input step of this iteration found a reset key down; the load_svg call
\* of this step returned a document.
ResetStep == pc = "input" /\ pc' = "present" /\ "reset" \in keys'
GoodLoadStep == pc = "reload" /\ pc' = "resize" /\ reloaded'

\* C12: an input step that finds a pan or zoom key down (and no reset key,
\* whose block runs last) leaves auto_fit false; auto_fit turns true only in
\* an input step with the reset key down or in a reload that succeeds; pan,
\* zoom and auto_fit change in no other step than an input step with a key
\* down or a successful reload: not by a resize, a focus change, a failed
\* reload, a filtered event or an idle timeout.
C12_AutoFitOrManual ==
    /\ [][(pc = "input" /\ pc' = "present" /\ keys' \cap {"pan", "zoom"} # {}
            /\ "reset" \notin keys') => ~auto_fit']_vars
    /\ [][(~auto_fit /\ auto_fit') => (ResetStep \/ GoodLoadStep)]_vars
    /\ [][(<<pan, zoom, auto_fit>>' # <<pan, zoom, auto_fit>>) =>
            \/ pc = "input" /\ pc' = "present" /\ keys' # {}
            \/ GoodLoadStep]_vars

\* C12 witness: a zoomed viewport, auto_fit off, has come unchanged through an
\* iteration that regained the focus, made a reload that failed and resized.
C12_Witness ==
    /\ pc = "present" /\ ~auto_fit /\ zoom # Zoom1 /\ keys = {}
    /\ loads = 1 /\ ~reloaded
    /\ {"focus", "resize"} \subseteq seen

----
\* Present or wait.

\* The step that ends an iteration's body: the `if dirty {..} else {..}` of
\* lines 249-293 is left.
EndStep == pc = "present" /\ pc' # "present"

\* C13: the end of every iteration is either a render and present, taken with
\* dirty true and leaving it false, or the entry into the idle wait, taken
\* with dirty false and leaving the buffer alone, never both; the main thread
\* is never blocked in the idle wait with dirty true, and the buffer is drawn
\* only by a render that found dirty true.
C13_PresentOrWait ==
    /\ [][EndStep =>
            \/ dirty /\ did' = "render" /\ ~dirty' /\ pc' \in {"top", "failed"}
            \/ ~dirty /\ did' = "idle" /\ ~dirty' /\ pc' = "wait" /\ buffer' = buffer]_vars
    /\ [][(pc # "wait" /\ pc' = "wait") => (pc = "present" /\ ~dirty)]_vars
    /\ [](pc = "wait" => ~dirty)
    /\ [][(buffer' # buffer /\ pc # "resize") => (pc = "present" /\ dirty)]_vars

\* C13 witness: the loop is blocked in the idle wait, dirty false, after an
\* iteration that had a key down and so rendered.
C13_Witness == pc = "wait" /\ ~dirty /\ did = "idle" /\ fresh /\ ~auto_fit

----
\* The first frame.

\* C14: until the first iteration has ended, dirty is true and the loop is not
\* in the idle wait; the first iteration ends with a render and present, and
\* with no document loaded the frame it presents is the whole buffer, width *
\* height pixels, filled with the background colour.
C14_FirstFrame ==
    /\ []((did = "none" /\ InLoop) => (dirty /\ pc # "wait"))
    /\ [][(did = "none" /\ EndStep) =>
            /\ did' = "render"
            /\ tree = None => buffer' = Buf(width * height, "background")
            /\ tree # None => buffer' = Buf(width * height, "svg")]_vars

\* C14 witness: the loop was entered without a document and without a message
\* on the way, and its first iteration has presented the background.
C14_Witness ==
    /\ pc = "top" /\ did = "render" /\ tree = None /\ ~owed
    /\ buffer = Buf(width * height, "background")

----
\* The wake-up from the idle wait.

\* m is a watch error, or a batch with an event on the tracked file that is
\* not an open of it.
Wakes(m) ==
    \/ ~m.ok
    \/ \E i \in 1..Len(m.events) :
          SvgPath \in m.events[i].paths /\ m.events[i].kind # "AccessOpenAny"

\* The idle wait returns: with the message at the head of the channel, or at
\* its timeout when there is none.
WaitReturns == pc = "wait" /\ pc' = "top"

\* C15: the return from the idle wait reloads nothing and draws nothing; it
\* leaves dirty true when it received a watch error or a batch with a
\* reload-worthy event on the tracked file, and false when it timed out or
\* received filtered events only; after a wake-up dirty stays true up to the
\* end of the next iteration, which is a render and present.
C15_WakeUp ==
    /\ [][WaitReturns =>
            /\ UNCHANGED <<tree, buffer, did, calm, loads, fresh, viewVars, width, height>>
            /\ dirty' = (chan # <<>> /\ Wakes(Head(chan)))]_vars
    /\ []((InLoop /\ "wake" \in seen) => (dirty /\ pc # "wait"))
    /\ [][(EndStep /\ "wake" \in seen) => did' = "render"]_vars

\* C15 witness: the idle wait has returned with a message that set dirty, and
\* the loop is at the start of the next iteration, nothing reloaded or drawn.
C15_Witness == pc = "top" /\ "wake" \in seen /\ dirty /\ did = "idle" /\ loads = 0 /\ fresh

----
\* The repaint when the focus comes back.

\* The focus check of an iteration finds the window active, where the check
\* before it (or line 152, before the loop) found it inactive.
FocusRegained == pc = "top" /\ pc' = "drain" /\ ~was_active /\ was_active'

\* The iteration that ends now saw no focus transition, made no load_svg call,
\* took no resize, found no key down and was not woken by the idle wait.
NothingHappened ==
    /\ "focus" \notin seen /\ loads = 0 /\ "resize" \notin seen /\ keys = {}
    /\ "wake" \notin seen

\* An iteration that regains the focus has dirty true from its focus check
\* on and ends with a render and present.
FocusRepaints ==
    /\ [][FocusRegained => (dirty' /\ "focus" \in seen')]_vars
    /\ []((InLoop /\ "focus" \in seen) => (dirty /\ pc # "wait"))
    /\ [][(EndStep /\ "focus" \in seen) => did' = "render"]_vars

\* C16 as stated: an iteration that regains the focus renders and presents;
\* an iteration with no focus transition, no reload, no resize, no key input
\* and no pending wake-up does not render.
C16_FocusAsStated ==
    /\ FocusRepaints
    /\ [][(EndStep /\ NothingHappened) => did' = "idle"]_vars

\* C16 amended: an iteration that regains the focus renders and presents; an
\* iteration other than the first one, with no focus transition, no reload, no
\* resize, no key input and no pending wake-up, does not render.  (The first
\* iteration renders whatever happens: the loop is entered with dirty true.)
C16_FocusRegain ==
    /\ FocusRepaints
    /\ [][(EndStep /\ did # "none" /\ NothingHappened) => did' = "idle"]_vars

\* C16 witness: an iteration after the first regained the focus, with nothing
\* else to draw for, and is about to render.
C16_Witness ==
    /\ pc = "present" /\ dirty /\ did = "idle" /\ seen = {"focus"}
    /\ loads = 0 /\ keys = {}

----
\* The frame on display while the loop idles.

\* C18: whenever the loop is in the idle wait, a frame has been presented and
\* nothing render reads (the cached document, width, height, pan, zoom,
\* fit_scale) has changed since that frame was rendered: every step that
\* changes one of them is followed by a render before the loop idles.
C18_FrameNotStale ==
    /\ [][RenderArgs' # RenderArgs => ~fresh']_vars
    /\ [][(~fresh /\ fresh') => (pc = "present" /\ dirty /\ did' = "render")]_vars
    /\ []((pc = "wait") => (fresh /\ did # "none"))

\* C18 witness: the loop idles on a frame drawn after the document was loaded
\* and the viewport panned.
C18_Witness == pc = "wait" /\ fresh /\ tree # None /\ pan # <<0, 0>> /\ loads = 0

----
\* Quiescence.

\* In the iteration that ends now get_size() reported the size it reported in
\* the iteration before, no key was down, the focus did not change and no
\* message was received.
QuietNow == keys = {} /\ seen \cap {"focus", "blur", "msg", "newsize"} = {}

\* C19: once the window reports a constant size (zero width or height
\* included), no key is down, the focus does not change and no message
\* arrives, the loop renders at most once more: an iteration in which all this
\* holds, and which follows an iteration with no key, focus change or message,
\* idles.
C19_Quiescence ==
    [][(EndStep /\ did # "none" /\ calm /\ QuietNow) => did' = "idle"]_vars

----
\* The buffer and the dimensions.

\* C20: at every present, whatever sizes the window has reported (zero
\* included) and whether a document is loaded or not, width >= 1, height >= 1
\* and the buffer handed to update_with_buffer holds width * height pixels.
C20_BufferFitsWindow ==
    [][(EndStep /\ did' = "render") =>
          (width >= 1 /\ height >= 1 /\ buffer'.len = width * height)]_vars

\* C20 witness: the window reported zero width with no document loaded, and
\* the background was presented in a buffer of 1 x 300 pixels.
C20_Witness ==
    /\ pc = "top" /\ did = "render" /\ tree = None
    /\ lastSize = <<0, 300>> /\ width = 1 /\ height = 300
    /\ buffer = Buf(300, "background")

----
\* The fit and the centring as f32 arithmetic (lines 33-36 and 203-206).
\*
\* A positive f32 is [m, e]: the value m * 2^e with 2^23 <= m < 2^24.  The
\* operands are of the size of a window and a document, far from overflow and
\* underflow, so an operation is the exact result rounded to 24 significant
\* bits, ties to even.

Two12 == 4096
Two23 == 8388608
Two24 == 16777216

F32(m, e) == [m |-> m, e |-> e]

RECURSIVE Normal(_, _)
\* m * 2^e, 0 < m < 2^24, with the significand brought into 2^23 .. 2^24 - 1.
Normal(m, e) == IF m >= Two23 THEN F32(m, e) ELSE Normal(2 * m, e - 1)

\* `n as f32` for an integer 0 < n < 2^24: exact.
F32OfInt(n) == Normal(n, 0)

\* The 24 leading bits m of an exact result and whether what follows them
\* rounds up.
Rounded(m, e, up) ==
    IF ~up THEN F32(m, e)
    ELSE IF m + 1 = Two24 THEN F32(Two23, e + 1) ELSE F32(m + 1, e)

RECURSIVE DivBits(_, _, _, _)
\* Long division: q = floor(a * 2^-e / b), r the remainder; one more bit of
\* the quotient at each step until it has 24 bits, then the rounding, which
\* compares the remainder with half the divisor.
DivBits(q, r, b, e) ==
    IF q >= Two23
    THEN Rounded(q, e, 2 * r > b \/ (2 * r = b /\ q % 2 = 1))
    ELSE DivBits(2 * q + (IF 2 * r >= b THEN 1 ELSE 0), (2 * r) % b, b, e - 1)

\* a as f32 / b as f32, for integers 0 < a, b < 2^12.
F32Div(a, b) == DivBits(a \div b, a % b, b, 0)

RECURSIVE BitLen(_)
BitLen(n) == IF n = 0 THEN 0 ELSE 1 + BitLen(n \div 2)

RECURSIVE Pow2(_)
Pow2(k) == IF k = 0 THEN 1 ELSE 2 * Pow2(k - 1)

\* n as f32 * x, for an integer 0 < n < 2^11.  The exact product n * x.m is
\* kept as hi * 2^12 + lo (it has up to 35 bits), cut to its 24 leading bits
\* and rounded on the s bits cut off.
F32MulInt(n, x) ==
    LET hi  == n * (x.m \div Two12) + (n * (x.m % Two12)) \div Two12
        lo  == (n * (x.m % Two12)) % Two12
        s   == BitLen(hi) - 12
        m   == hi * Pow2(12 - s) + lo \div Pow2(s)
        rem == lo % Pow2(s)
    IN  Rounded(m, x.e + s,
                s > 0 /\ (2 * rem > Pow2(s) \/ (2 * rem = Pow2(s) /\ m % 2 = 1)))

\* x <= y, for positive values.
F32Le(x, y) == x.e < y.e \/ (x.e = y.e /\ x.m <= y.m)

\* A variant: the larger of the two quotients.
F32Max(x, y) == IF F32Le(x, y) THEN y ELSE x

\* f32::min.
F32Min(x, y) == IF F32Le(x, y) THEN x ELSE y

\* The f32 next above and next below x.
F32Succ(x) == Rounded(x.m, x.e, TRUE)
F32Pred(x) == IF x.m = Two23 THEN F32(Two24 - 1, x.e - 1) ELSE F32(x.m - 1, x.e)

\* The sign of (w as f32 - p) / 2.0 + 0.0: an f32 difference is 0 only of
\* equal operands, and halving and adding a pan of 0.0 keep it as it is.
OffsetSign(w, p) ==
    IF p = F32OfInt(w) THEN 0 ELSE IF F32Le(p, F32OfInt(w)) THEN 1 ELSE -1

\* Lines 203-206 and 33-36 for a window of w x h, a document of dw x dh, pan =
\* (0.0, 0.0) and zoom = 1.0: fit_scale, eff_scale = fit_scale * 1.0, the
\* products svg_size.width() * eff_scale and svg_size.height() * eff_scale,
\* and the signs of offset_x and offset_y.
Centre(w, h, dw, dh) ==
    LET fit == F32Min(F32Div(w, dw), F32Div(h, dh))
        eff == F32MulInt(1, fit)
    IN  [ fit_scale |-> fit,
          eff_scale |-> eff,
          scaled_w  |-> F32MulInt(dw, eff),
          scaled_h  |-> F32MulInt(dh, eff),
          offset_x  |-> OffsetSign(w, F32MulInt(dw, eff)),
          offset_y  |-> OffsetSign(h, F32MulInt(dh, eff)) ]

\* Window and document sizes of SpecCentre.
WinWidths == {800, 640, 480, 400, 1}
WinHeights == {600, 480, 300, 1}
DocWidths == {400, 200, 300, 100, 3}
DocHeights == {300, 400, 100, 7}

InitCentre ==
    /\ sizes \in WinWidths \X WinHeights \X DocWidths \X DocHeights
    /\ centred = <<>>
    /\ WaitIdle
    /\ LoopOff
    /\ PixIdle

\* The fit (step 3 of the loop) and the offsets of the render that follows.
FitAndCentre ==
    /\ centred = <<>>
    /\ centred' = Centre(sizes[1], sizes[2], sizes[3], sizes[4])
    /\ UNCHANGED <<sizes, envVars, loopVars, histVars, waitVars, pixVars, schedVars>>

SpecCentre == InitCentre /\ [][FitAndCentre]_vars

----
\* Centring under the default viewport.

\* The fit and the offsets have been computed.
Centred == centred # <<>>

\* Both offsets are >= 0 and at least one of them is 0.
InsideAndTouching ==
    /\ centred.offset_x >= 0 /\ centred.offset_y >= 0
    /\ centred.offset_x = 0 \/ centred.offset_y = 0

\* For a window of 800x600 and a document of 400x300: fit_scale = 2,
\* effective scale 2, offset (0, 0).
Scenario800x600 ==
    sizes = <<800, 600, 400, 300>> =>
        /\ centred.fit_scale = F32OfInt(2) /\ centred.eff_scale = F32OfInt(2)
        /\ centred.offset_x = 0 /\ centred.offset_y = 0

\* x is n as f32, or the f32 next below or next above it.
WithinOneUlp(x, n) == x \in {F32OfInt(n), F32Pred(F32OfInt(n)), F32Succ(F32OfInt(n))}

\* C17 as stated: with pan = (0, 0), zoom = 1.0 and auto_fit, after the fit
\* the offsets (w - doc_w * fit_scale) / 2 and (h - doc_h * fit_scale) / 2 are
\* both >= 0 and at least one is 0; 800x600 and 400x300 give fit_scale 2 and
\* offset (0, 0).
C17_CentredAsStated == Centred => (InsideAndTouching /\ Scenario800x600)

\* C17 amended: the offsets are computed in f32 from the rounded quotient.
\* When w / doc_w and h / doc_h are integers they are both >= 0 and at least
\* one is 0.  In general the scaled extent on one axis is the window's, or an
\* f32 next to it, and neither scaled extent is above the f32 next above the
\* window's: an offset is 0 on one axis only up to half a unit in the last
\* place, and each offset can be negative by that much.  800x600 and 400x300
\* give fit_scale 2, effective scale 2 and offset (0, 0).
C17_Centred ==
    Centred =>
        /\ (sizes[1] % sizes[3] = 0 /\ sizes[2] % sizes[4] = 0) => InsideAndTouching
        /\ \/ WithinOneUlp(centred.scaled_w, sizes[1])
           \/ WithinOneUlp(centred.scaled_h, sizes[2])
        /\ F32Le(centred.scaled_w, F32Succ(F32OfInt(sizes[1])))
        /\ F32Le(centred.scaled_h, F32Succ(F32OfInt(sizes[2])))
        /\ Scenario800x600

\* C17 witness: a document of 400x400 fitted into a window of 800x480 has
\* fit_scale = fl(1.2), and 400 * fit_scale rounds to the f32 next above 480:
\* offset_y is negative.
C17_Witness ==
    /\ Centred /\ sizes = <<800, 480, 400, 400>>
    /\ centred.scaled_h = F32Succ(F32OfInt(480)) /\ centred.offset_y = -1

====
